---------------------------- MODULE Spec2Model ----------------------------
(***************************************************************************)
(* A model of maptoposter's script.js: the theme loader, the geocoder, the *)
(* Overpass fetch with endpoint failover, the classifier parseOSMData, the *)
(* layered renderer and the submit handler that chains them, together with *)
(* the asynchronous init() that runs beside it.                            *)
(*                                                                         *)
(* JavaScript is single threaded: a handler runs until its next `await`,   *)
(* where it is suspended until the awaited network call settles.  Each     *)
(* action below is one such run-to-suspension step.  `await fetch(..)` and *)
(* the `await response.json()` that follows it are one step: nothing the   *)
(* handler can observe changes between them.                               *)
(*                                                                         *)
(* Numbers with decimals are kept as integers: degrees in hundredths,      *)
(* line widths in tenths.                                                  *)
(***************************************************************************)
EXTENDS Integers, Sequences, FiniteSets, TLC

VARIABLES
    currentTheme,         \* let currentTheme (script.js:46)
    lastGeneratedCity,    \* script.js:47
    lastGeneratedCountry, \* script.js:48
    themeSelect,          \* elements.themeSelect.value
    generateBtnDisabled,  \* elements.generateBtn.disabled
    downloadBtnDisabled,  \* elements.downloadBtn.disabled
    overlayHidden,        \* elements.loadingOverlay has class "hidden"
    loadingText,          \* elements.loadingText.textContent
    status,               \* elements.status: [text, type]
    canvas,               \* what has been drawn since the surface was last filled
    initPc,               \* where init() is
    pc,                   \* where the submit handler is
    inv,                  \* the locals of the submit invocation in flight
    inflight,             \* network requests that have not settled yet
    calls,                \* the requests the current invocation has issued, in order
    attempts,             \* how each request of the current fetchOSMData call settled
    graph,                \* the payload handed to parseOSMData
    region,               \* what parseOSMData returned
    drawn,                \* what the current renderPoster call has drawn
    caught,               \* the error the current invocation's catch block received
    answer,               \* how the place search of the current invocation settled
    atStart,              \* the current invocation's place, and the last generated one at its start
    planar,               \* the planar point project() returned last
    exported,             \* the file downloadPoster offered last
    phase                 \* "page", or where a harness is: "input", "classified", ..

vars == <<currentTheme, lastGeneratedCity, lastGeneratedCountry, themeSelect,
          generateBtnDisabled, downloadBtnDisabled, overlayHidden, loadingText,
          status, canvas, initPc, pc, inv, inflight, calls, attempts, graph,
          region, drawn, caught, answer, atStart, planar, exported,
          phase>>

-----------------------------------------------------------------------------
(* Bounds of the model.                                                    *)

MaxNodeId == 3      \* node ids are 1..MaxNodeId
MaxWayLen == 3      \* a way lists at most this many member node ids
MaxRoads == 3       \* a road-only graph holds at most this many roads

-----------------------------------------------------------------------------
(* JavaScript values.                                                      *)

\* The value of a missing property.
Undefined == "<undefined>"

\* JavaScript truthiness of a string-valued property.
Truthy(v) == v # Undefined /\ v # ""

\* obj[key] of a JavaScript object held as a record.
Get(obj, key) == IF key \in DOMAIN obj THEN obj[key] ELSE Undefined

\* a || b
OrElse(a, b) == IF Truthy(a) THEN a ELSE b

\* Array.prototype.indexOf: zero based, -1 when absent.
indexOf(arr, v) ==
    IF \E i \in 1..Len(arr) : arr[i] = v
    THEN (CHOOSE i \in 1..Len(arr) :
              arr[i] = v /\ \A j \in 1..(i - 1) : arr[j] # v) - 1
    ELSE -1

-----------------------------------------------------------------------------
(* Configuration.                                                          *)

NOMINATIM_URL == "https://nominatim.openstreetmap.org/search"

OVERPASS_SERVERS ==
    << "https://overpass-api.de/api/interpreter",
       "https://overpass.kumi.systems/api/interpreter",
       "https://maps.mail.ru/osm/tools/overpass/api/interpreter" >>

\* ROAD_WIDTHS, in tenths.
ROAD_WIDTHS ==
    [ motorway |-> 35, motorway_link |-> 30, trunk |-> 30, trunk_link |-> 25,
      primary |-> 25, primary_link |-> 20, secondary |-> 20,
      secondary_link |-> 15, tertiary |-> 15, tertiary_link |-> 12,
      residential |-> 10, living_street |-> 8, unclassified |-> 8,
      service |-> 5, default |-> 8 ]

\* ROAD_WIDTHS[road.type] || ROAD_WIDTHS.default
RoadWidth(roadType) ==
    IF roadType \in DOMAIN ROAD_WIDTHS THEN ROAD_WIDTHS[roadType]
    ELSE ROAD_WIDTHS["default"]

\* The theme loadTheme installs when the load fails.
FallbackTheme ==
    [ name |-> "Default", bg |-> "#FFFFFF", text |-> "#000000",
      gradient_color |-> "#FFFFFF", water |-> "#C0C0C0", parks |-> "#F0F0F0",
      road_motorway |-> "#0A0A0A", road_primary |-> "#1A1A1A",
      road_secondary |-> "#2A2A2A", road_tertiary |-> "#3A3A3A",
      road_residential |-> "#4A4A4A", road_default |-> "#3A3A3A" ]

\* let currentTheme = null
NullTheme == [ null |-> "null" ]

-----------------------------------------------------------------------------
(* parseOSMData.                                                           *)

\* The priority table of the road sort.
roadOrder ==
    << "service", "living_street", "unclassified", "residential",
       "tertiary_link", "tertiary", "secondary_link", "secondary",
       "primary_link", "primary", "trunk_link", "trunk",
       "motorway_link", "motorway" >>

\* The first pass: nodes[el.id] = {lat, lon}; a later node element with the
\* same id overwrites an earlier one.
NodeLookup(elements) ==
    LET isNode(i) == elements[i].type = "node"
        ids == { elements[i].id : i \in { j \in 1..Len(elements) : isNode(j) } }
        last(id) == CHOOSE i \in 1..Len(elements) :
                        /\ isNode(i) /\ elements[i].id = id
                        /\ \A j \in (i + 1)..Len(elements) :
                               ~(isNode(j) /\ elements[j].id = id)
    IN  [ id \in ids |->
            [ lat |-> elements[last(id)].lat, lon |-> elements[last(id)].lon ] ]

\* A member id that occurs again later in the way is resolved once only.
RECURSIVE ResolveCoords_Unique(_, _)
ResolveCoords_Unique(nodeIds, nodes) ==
    IF nodeIds = << >> THEN << >>
    ELSE LET rest == ResolveCoords_Unique(Tail(nodeIds), nodes)
             again == \E p \in 2..Len(nodeIds) : nodeIds[p] = Head(nodeIds)
         IN  IF Head(nodeIds) \in DOMAIN nodes /\ ~again
             THEN << nodes[Head(nodeIds)] >> \o rest
             ELSE rest

\* el.nodes.map(nodeId => nodes[nodeId]).filter(n => n !== undefined)
RECURSIVE ResolveCoords(_, _)
ResolveCoords(nodeIds, nodes) ==
    IF nodeIds = << >> THEN << >>
    ELSE LET rest == ResolveCoords(Tail(nodeIds), nodes)
         IN  IF Head(nodeIds) \in DOMAIN nodes
             THEN << nodes[Head(nodeIds)] >> \o rest
             ELSE rest

\* Every way counts as closed.
IsClosed_Always(el) == TRUE

\* el.nodes[0] === el.nodes[el.nodes.length - 1]
IsClosed(el) == el.nodes[1] = el.nodes[Len(el.nodes)]

\* A way of a single point is kept.
TooFewPoints_OffByOne(coords) == Len(coords) < 1

\* if (coords.length < 2) return;
TooFewPoints(coords) == Len(coords) < 2

\* The water test made before the highway test.
Categorize_WaterFirst(el, nodes) ==
    IF ~(el.type = "way" /\ "nodes" \in DOMAIN el /\ "tags" \in DOMAIN el)
    THEN "none"
    ELSE IF TooFewPoints(ResolveCoords(el.nodes, nodes)) THEN "none"
    ELSE IF Get(el.tags, "natural") = "water" \/ Truthy(Get(el.tags, "waterway"))
         THEN IF IsClosed(el) THEN "waterPolygons" ELSE "waterWays"
    ELSE IF Truthy(Get(el.tags, "highway")) THEN "roads"
    ELSE IF Get(el.tags, "leisure") = "park" \/ Get(el.tags, "landuse") = "grass"
         THEN IF IsClosed(el) THEN "parks" ELSE "none"
    ELSE "none"

\* The body of the second forEach for one element: the collection the
\* element is pushed to, or "none".
Categorize(el, nodes) ==
    IF ~(el.type = "way" /\ "nodes" \in DOMAIN el /\ "tags" \in DOMAIN el)
    THEN "none"
    ELSE IF TooFewPoints(ResolveCoords(el.nodes, nodes)) THEN "none"
    ELSE IF Truthy(Get(el.tags, "highway")) THEN "roads"
    ELSE IF Get(el.tags, "natural") = "water" \/ Truthy(Get(el.tags, "waterway"))
         THEN IF IsClosed(el) THEN "waterPolygons" ELSE "waterWays"
    ELSE IF Get(el.tags, "leisure") = "park" \/ Get(el.tags, "landuse") = "grass"
         THEN IF IsClosed(el) THEN "parks" ELSE "none"
    ELSE "none"

\* What is pushed for an element of category cat.
Geometry(el, nodes, cat) ==
    IF cat = "roads"
    THEN [ type |-> el.tags["highway"], coords |-> ResolveCoords(el.nodes, nodes) ]
    ELSE [ coords |-> ResolveCoords(el.nodes, nodes) ]

\* The elements pushed to collection cat, in element order.
RECURSIVE Collect(_, _, _)
Collect(elements, nodes, cat) ==
    IF elements = << >> THEN << >>
    ELSE LET el == Head(elements)
             rest == Collect(Tail(elements), nodes, cat)
         IN  IF Categorize(el, nodes) = cat
             THEN << Geometry(el, nodes, cat) >> \o rest
             ELSE rest

\* The comparator with its operands swapped.
CompareRoads_Reversed(a, b) == indexOf(roadOrder, b.type) - indexOf(roadOrder, a.type)

\* The comparator of roads.sort.
CompareRoads(a, b) == indexOf(roadOrder, a.type) - indexOf(roadOrder, b.type)

\* Array.prototype.sort is stable: r goes after every element that does not
\* compare greater than it.
RECURSIVE InsertRoad(_, _)
InsertRoad(sorted, r) ==
    IF sorted = << >> THEN << r >>
    ELSE LET n == Len(sorted)
         IN  IF CompareRoads(sorted[n], r) <= 0
             THEN Append(sorted, r)
             ELSE Append(InsertRoad(SubSeq(sorted, 1, n - 1), r), sorted[n])

RECURSIVE SortRoads(_)
SortRoads(roads) ==
    IF roads = << >> THEN << >>
    ELSE LET n == Len(roads)
         IN  InsertRoad(SortRoads(SubSeq(roads, 1, n - 1)), roads[n])

parseOSMData(data) ==
    LET nodes == NodeLookup(data.elements)
    IN  [ roads |-> SortRoads(Collect(data.elements, nodes, "roads")),
          waterWays |-> Collect(data.elements, nodes, "waterWays"),
          waterPolygons |-> Collect(data.elements, nodes, "waterPolygons"),
          parks |-> Collect(data.elements, nodes, "parks"),
          nodes |-> nodes ]

\* The region before any payload was parsed.
NoRegion ==
    [ roads |-> << >>, waterWays |-> << >>, waterPolygons |-> << >>,
      parks |-> << >>, nodes |-> << >> ]

NoGraph == [ elements |-> << >> ]

-----------------------------------------------------------------------------
(* createProjection, in fixed point: angles in ten-thousandths of a degree *)
(* (latitudes and longitudes arrive in hundredths), cosines in             *)
(* ten-thousandths, Mercator ordinates in units of 10^-8, planar           *)
(* coordinates in hundredths of a pixel.                                   *)

CANVAS_WIDTH == 900

CANVAS_HEIGHT == 1200

metersPerDegreeLat == 111320

\* The latitudes, in hundredths, the projection is built around.
CenterLats == { 0, 3366, 4885, -3387, 6000, 7822 }

\* Math.cos(centerLat * Math.PI / 180), in ten-thousandths.
Cos(centerLat) ==
    CASE centerLat = 0 -> 10000
      [] centerLat = 3366 -> 8323
      [] centerLat = 4885 -> 6580
      [] centerLat = -3387 -> 8303
      [] centerLat = 6000 -> 5000
      [] centerLat = 7822 -> 2042

\* The values of Math.log(Math.tan(Math.PI / 4 + latRad / 2)), times 10^8
\* and rounded, at the latitudes (in ten-thousandths of a degree) the
\* projections of the model evaluate it at.
MercatorTable ==
    <<
       << -428531, -82933917 >>, << -340496, -63270263 >>, << -339598, -63081201 >>,
       << -339149, -62986745 >>, << -338789, -62911048 >>, << -338700, -62892339 >>,
       << -338611, -62873632 >>, << -338251, -62797982 >>, << -337802, -62703675 >>,
       << -336904, -62515209 >>, << -248869, -44869830 >>, << -89831, -15743098 >>,
       << -1796, -313462 >>, << -898, -156731 >>, << -449, -78365 >>,
       << -89, -15533 >>, << 0, 0 >>, << 89, 15533 >>,
       << 449, 78365 >>, << 898, 156731 >>, << 1796, 313462 >>,
       << 89831, 15743098 >>, << 246769, 44466134 >>, << 334804, 62075243 >>,
       << 335702, 62263250 >>, << 336151, 62357326 >>, << 336511, 62432791 >>,
       << 336600, 62451452 >>, << 336689, 62470116 >>, << 337049, 62545627 >>,
       << 337498, 62639852 >>, << 338396, 62828448 >>, << 398669, 75988010 >>,
       << 426431, 82434806 >>, << 486704, 97506828 >>, << 487602, 97744371 >>,
       << 488051, 97863301 >>, << 488411, 97958734 >>, << 488500, 97982338 >>,
       << 488589, 98005946 >>, << 488949, 98101482 >>, << 489398, 98220732 >>,
       << 490296, 98459556 >>, << 510169, 103859225 >>, << 578331, 124367640 >>,
       << 598204, 131070562 >>, << 599102, 131382753 >>, << 599551, 131539165 >>,
       << 599911, 131664727 >>, << 600000, 131695790 >>, << 600089, 131726861 >>,
       << 600449, 131852627 >>, << 600898, 132009677 >>, << 601796, 132324421 >>,
       << 689831, 168474571 >>, << 692369, 169716862 >>, << 780404, 225619975 >>,
       << 781302, 226379129 >>, << 781751, 226760831 >>, << 782111, 227067907 >>,
       << 782200, 227143965 >>, << 782289, 227220080 >>, << 782649, 227528541 >>,
       << 783098, 227914571 >>, << 783996, 228691036 >>, << 872031, 371266388 >>
    >>

\* latToY
latToY(lat) ==
    MercatorTable[CHOOSE i \in 1..Len(MercatorTable) : MercatorTable[i][1] = lat][2]

\* n * m / d on integers, n <= d, without an intermediate product:
\* <<quotient, remainder>> of n * m by d.
RECURSIVE MulDivRem(_, _, _)
MulDivRem(n, m, d) ==
    IF m = 0 THEN << 0, 0 >>
    ELSE IF m % 2 = 0
         THEN LET h == MulDivRem(n, m \div 2, d)
              IN  << 2 * h[1] + (2 * h[2]) \div d, (2 * h[2]) % d >>
         ELSE LET h == MulDivRem(n, m - 1, d)
              IN  << h[1] + (h[2] + n) \div d, (h[2] + n) % d >>

MulDiv(n, m, d) == MulDivRem(n, m, d)[1]

\* A bounding box with the center as its south-west corner.
Bounds_NotCentred(centerLat, centerLon, radiusMeters) ==
    LET latRadius == (radiusMeters * 1000) \div (metersPerDegreeLat \div 10)
        lonRadius == (latRadius * 10000) \div Cos(centerLat)
    IN  [ minLat |-> centerLat * 100,
          maxLat |-> centerLat * 100 + latRadius,
          minLon |-> centerLon * 100,
          maxLon |-> centerLon * 100 + lonRadius ]

\* bounds: latRadius = radiusMeters / 111320 degrees, lonRadius =
\* radiusMeters / (111320 * cos(centerLat)) degrees, around the center.
Bounds(centerLat, centerLon, radiusMeters) ==
    LET latRadius == (radiusMeters * 1000) \div (metersPerDegreeLat \div 10)
        lonRadius == (latRadius * 10000) \div Cos(centerLat)
    IN  [ minLat |-> centerLat * 100 - latRadius,
          maxLat |-> centerLat * 100 + latRadius,
          minLon |-> centerLon * 100 - lonRadius,
          maxLon |-> centerLon * 100 + lonRadius ]

\* project(lat, lon) of createProjection(centerLat, centerLon, radiusMeters,
\* canvasWidth, canvasHeight), for a point inside the bounds.
project(centerLat, centerLon, radiusMeters, canvasWidth, canvasHeight, lat, lon) ==
    LET bounds == Bounds(centerLat, centerLon, radiusMeters)
        minY == latToY(bounds.minLat)
        maxY == latToY(bounds.maxLat)
    IN  [ x |-> MulDiv(lon * 100 - bounds.minLon, canvasWidth * 100,
                       bounds.maxLon - bounds.minLon),
          y |-> canvasHeight * 100
                  - MulDiv(latToY(lat * 100) - minY, canvasHeight * 100,
                           maxY - minY) ]

\* No point has been projected.
NoPoint == [ x |-> -1, y |-> -1 ]

-----------------------------------------------------------------------------
(* Canvas rendering.  A drawing operation is recorded as it is issued:     *)
(* color is the value assigned to fillStyle or strokeStyle (the canvas     *)
(* ignores the assignment of an undefined value), coords are the points    *)
(* handed to project() in order.                                           *)

DrawOp(layer, kind, color, width, coords, text) ==
    [ layer |-> layer, kind |-> kind, color |-> color, width |-> width,
      coords |-> coords, text |-> text ]

\* clearCanvas: the whole surface is filled with the background.
clearCanvas(theme) ==
    << DrawOp("background", "fillRect", Get(theme, "bg"), 0, << >>, "") >>

\* drawPolygons: one fill for each polygon of at least 3 points.
RECURSIVE drawPolygons(_, _, _)
drawPolygons(polygons, color, layer) ==
    IF polygons = << >> THEN << >>
    ELSE LET rest == drawPolygons(Tail(polygons), color, layer)
         IN  IF Len(Head(polygons).coords) < 3 THEN rest
             ELSE << DrawOp(layer, "fill", color, 0, Head(polygons).coords, "") >>
                  \o rest

\* drawWaterways: one stroke of width 2 for each way of at least 2 points.
RECURSIVE drawWaterways(_, _)
drawWaterways(ways, color) ==
    IF ways = << >> THEN << >>
    ELSE LET rest == drawWaterways(Tail(ways), color)
         IN  IF Len(Head(ways).coords) < 2 THEN rest
             ELSE << DrawOp("waterWays", "stroke", color, 20, Head(ways).coords, "") >>
                  \o rest

\* getRoadColor: colorMap[roadType] || currentTheme.road_default
getRoadColor(theme, roadType) ==
    LET key == CASE roadType \in {"motorway", "motorway_link"} -> "road_motorway"
                 [] roadType \in {"trunk", "trunk_link", "primary", "primary_link"}
                        -> "road_primary"
                 [] roadType \in {"secondary", "secondary_link"} -> "road_secondary"
                 [] roadType \in {"tertiary", "tertiary_link"} -> "road_tertiary"
                 [] roadType \in {"residential", "living_street", "unclassified"}
                        -> "road_residential"
                 [] roadType = "service" -> "road_default"
                 [] OTHER -> "<none>"
    IN  OrElse(Get(theme, key), Get(theme, "road_default"))

\* drawRoads: one stroke for each road of at least 2 points, in array order.
RECURSIVE drawRoads(_, _)
drawRoads(roads, theme) ==
    IF roads = << >> THEN << >>
    ELSE LET road == Head(roads)
             rest == drawRoads(Tail(roads), theme)
         IN  IF Len(road.coords) < 2 THEN rest
             ELSE << DrawOp("roads", road.type, getRoadColor(theme, road.type),
                            RoadWidth(road.type), road.coords, "") >> \o rest

\* drawGradientFade for 'top' then 'bottom'.  addColorStop and hexToRGBA
\* throw when gradient_color is undefined.
GradientThrows(theme) == ~Truthy(Get(theme, "gradient_color"))

drawGradientFades(theme) ==
    << DrawOp("gradient", "top", Get(theme, "gradient_color"), 0, << >>, ""),
       DrawOp("gradient", "bottom", Get(theme, "gradient_color"), 0, << >>, "") >>

\* drawTypography: the city, the rule, the country, the coordinates and the
\* attribution.  text is the string the drawn text is made from.
drawTypography(theme, city, country, lat, lon) ==
    LET c == Get(theme, "text")
        at == << [ lat |-> lat, lon |-> lon ] >>
    IN  << DrawOp("typography", "city", c, 0, << >>, city),
           DrawOp("typography", "rule", c, 10, << >>, ""),
           DrawOp("typography", "country", c, 0, << >>, country),
           DrawOp("typography", "coordinates", c, 0, at, ""),
           DrawOp("typography", "attribution", c, 0, << >>,
                  "(c) OpenStreetMap contributors") >>

\* renderPoster with the roads drawn before the parks.
RenderLayers_RoadsBeforeParks(r, theme, city, country, lat, lon) ==
    LET below == drawPolygons(r.waterPolygons, Get(theme, "water"), "waterPolygons")
                 \o drawWaterways(r.waterWays, Get(theme, "water"))
                 \o drawRoads(r.roads, theme)
                 \o drawPolygons(r.parks, Get(theme, "parks"), "parks")
    IN  IF GradientThrows(theme)
        THEN [ ops |-> below, error |-> "invalid gradient color" ]
        ELSE [ ops |-> below \o drawGradientFades(theme)
                         \o drawTypography(theme, city, country, lat, lon),
               error |-> "none" ]

\* renderPoster after fetchOSMData has returned: the operations issued, and
\* the error thrown ("none" when the call returns).
RenderLayers(r, theme, city, country, lat, lon) ==
    LET below == drawPolygons(r.waterPolygons, Get(theme, "water"), "waterPolygons")
                 \o drawWaterways(r.waterWays, Get(theme, "water"))
                 \o drawPolygons(r.parks, Get(theme, "parks"), "parks")
                 \o drawRoads(r.roads, theme)
    IN  IF GradientThrows(theme)
        THEN [ ops |-> below, error |-> "invalid gradient color" ]
        ELSE [ ops |-> below \o drawGradientFades(theme)
                         \o drawTypography(theme, city, country, lat, lon),
               error |-> "none" ]

-----------------------------------------------------------------------------
(* The graphs the classifier is run on.                                    *)

NodeIds == 1..MaxNodeId

NodeEl(i) == [ type |-> "node", id |-> i, lat |-> 5200 + i, lon |-> 1300 + i ]

\* The node elements of the ids in S, by ascending id.
RECURSIVE NodeEls(_)
NodeEls(S) ==
    IF S = {} THEN << >>
    ELSE LET m == CHOOSE i \in S : \A j \in S : i <= j
         IN  << NodeEl(m) >> \o NodeEls(S \ {m})

SeqsUpTo(S, n) == UNION { [1..k -> S] : k \in 0..n }

NoTags == << >>

TagChoices ==
    { [ highway |-> "primary" ],
      [ highway |-> "footway" ],
      [ highway |-> "service", natural |-> "water", leisure |-> "park" ],
      [ natural |-> "water" ],
      [ waterway |-> "river" ],
      [ natural |-> "water", leisure |-> "park" ],
      [ waterway |-> "canal", landuse |-> "grass" ],
      [ leisure |-> "park" ],
      [ landuse |-> "grass" ],
      [ natural |-> "wood" ],
      NoTags }

\* Ways with tags, ways without a tags property, relations (no nodes property).
WayEls ==
    { [ type |-> "way", nodes |-> ns, tags |-> t ] :
          ns \in SeqsUpTo(NodeIds, MaxWayLen), t \in TagChoices }
    \cup { [ type |-> "way", nodes |-> ns ] : ns \in SeqsUpTo(NodeIds, MaxWayLen) }
    \cup { [ type |-> "relation", tags |-> t ] : t \in TagChoices }

\* One way of any shape and tagging over any set of known nodes.
GeomGraphs ==
    { [ elements |-> NodeEls(S) \o << w >> ] : S \in SUBSET NodeIds, w \in WayEls }

RoadSubtypes == { roadOrder[i] : i \in 1..Len(roadOrder) } \cup { "footway", "path" }

RoadEl(t) == [ type |-> "way", nodes |-> << 1, 2 >>, tags |-> [ highway |-> t ] ]

\* Up to MaxRoads roads of any subtypes in any order.
RoadGraphs ==
    { [ elements |-> NodeEls({1, 2}) \o [ i \in 1..Len(ts) |-> RoadEl(ts[i]) ] ] :
          ts \in SeqsUpTo(RoadSubtypes, MaxRoads) }

\* A graph with ways of every category.
FullGraph ==
    [ elements |-> NodeEls({1, 2, 3}) \o
        << [ type |-> "way", nodes |-> << 1, 2 >>, tags |-> [ highway |-> "motorway" ] ],
           [ type |-> "way", nodes |-> << 1, 2, 3 >>, tags |-> [ waterway |-> "river" ] ],
           [ type |-> "way", nodes |-> << 2, 3, 1, 2 >>, tags |-> [ leisure |-> "park" ] ],
           [ type |-> "way", nodes |-> << 2, 3 >>, tags |-> [ highway |-> "footway" ] ],
           [ type |-> "way", nodes |-> << 1, 2, 3, 1 >>, tags |-> [ natural |-> "water" ] ],
           [ type |-> "way", nodes |-> << 3, 1 >>, tags |-> [ highway |-> "service" ] ] >> ]

\* One closed water way around three known nodes.
RingGraph ==
    [ elements |-> NodeEls({1, 2, 3}) \o
        << [ type |-> "way", nodes |-> << 1, 2, 3, 1 >>,
             tags |-> [ natural |-> "water" ] ] >> ]

Graphs == GeomGraphs \cup RoadGraphs \cup { FullGraph, RingGraph }

-----------------------------------------------------------------------------
(* The network: what the theme files, the place search and the Overpass    *)
(* servers may answer.                                                     *)

ThemeNames == { "feature_based", "noir" }

ThemeUrl(themeName) == "themes/" \o themeName \o ".json"

\* The theme files as served when they are complete.
ThemeFile(themeName) ==
    IF themeName = "feature_based"
    THEN [ name |-> "Feature-Based", bg |-> "#F5F0E8", text |-> "#2B2B2B",
           gradient_color |-> "#F5F0E8", water |-> "#A8C8D8", parks |-> "#C8D8B0",
           road_motorway |-> "#E05030", road_primary |-> "#E08040",
           road_secondary |-> "#E0A050", road_tertiary |-> "#808080",
           road_residential |-> "#A0A0A0", road_default |-> "#B0B0B0" ]
    ELSE [ name |-> "Noir", bg |-> "#000000", text |-> "#FFFFFE",
           gradient_color |-> "#000000", water |-> "#0A0A0B", parks |-> "#111111",
           road_motorway |-> "#FFFFFD", road_primary |-> "#E0E0E0",
           road_secondary |-> "#C0C0C1", road_tertiary |-> "#909090",
           road_residential |-> "#606060", road_default |-> "#404040" ]

Without(obj, key) == [ k \in DOMAIN obj \ {key} |-> obj[k] ]

\* How a theme request settles: the transport fails, the status is not ok,
\* the body is not JSON, or the body is a theme object, complete or lacking
\* a key.
ThemeOutcomes == { "transport", "status", "badjson", "complete", "noWater" }

ThemeBody(themeName, outcome) ==
    CASE outcome = "noWater" -> Without(ThemeFile(themeName), "water")
      [] outcome = "noGradient" -> Without(ThemeFile(themeName), "gradient_color")
      [] OTHER -> ThemeFile(themeName)

\* Whether loadTheme's try block ended in its catch block.
ThemeLoad(outcome) ==
    IF outcome \in { "transport", "status", "badjson" } THEN "failed" ELSE "loaded"

\* loadTheme without the assignment of its catch block.
loadTheme_NoFallback(themeName, outcome) ==
    IF outcome \in { "transport", "status", "badjson" }
    THEN NullTheme
    ELSE ThemeBody(themeName, outcome)

\* loadTheme: the value it leaves in currentTheme.
loadTheme(themeName, outcome) ==
    IF outcome \in { "transport", "status", "badjson" }
    THEN FallbackTheme
    ELSE ThemeBody(themeName, outcome)

\* The results the place search may list.
SearchResults ==
    { [ lat |-> "48.85", lon |-> "2.35", display_name |-> "Paris, Ile-de-France" ],
      [ lat |-> "33.66", lon |-> "-95.55", display_name |-> "Paris, Texas" ] }

\* parseFloat on the coordinate strings, in hundredths of a degree.
parseFloat(str) ==
    CASE str = "48.85" -> 4885
      [] str = "2.35" -> 235
      [] str = "33.66" -> 3366
      [] str = "-95.55" -> -9555

\* The result lists: no place is listed twice.
ResultLists ==
    { d \in SeqsUpTo(SearchResults, Cardinality(SearchResults)) :
          \A a, b \in 1..Len(d) : d[a] = d[b] => a = b }

\* How a place search settles: the transport fails, the status is not ok,
\* the body is not JSON, the body is null, or the body is a result list.
GeocodeOutcomes ==
    { [ kind |-> k ] : k \in { "transport", "status", "badjson", "null" } }
    \cup { [ kind |-> "ok", data |-> d ] : d \in ResultLists }

Error(msg, arg) == [ msg |-> msg, arg |-> arg ]

NoError == Error("", "")

\* geocode taking the last result of the list.
geocode_LastResult(city, country, outcome) ==
    LET none == [ lat |-> 0, lon |-> 0, displayName |-> "" ]
        n == Len(outcome.data)
    IN  IF outcome.kind = "ok" /\ n > 0
        THEN [ error |-> NoError,
               value |-> [ lat |-> parseFloat(outcome.data[n].lat),
                           lon |-> parseFloat(outcome.data[n].lon),
                           displayName |-> outcome.data[n].display_name ] ]
        ELSE [ error |-> Error("Could not find location", city), value |-> none ]

\* geocode: the error it throws (NoError when it returns) and the value it
\* returns.
geocode(city, country, outcome) ==
    LET none == [ lat |-> 0, lon |-> 0, displayName |-> "" ]
    IN  CASE outcome.kind = "transport" ->
                [ error |-> Error("Failed to fetch", ""), value |-> none ]
          [] outcome.kind = "status" ->
                [ error |-> Error("Geocoding request failed", "500"), value |-> none ]
          [] outcome.kind = "badjson" ->
                [ error |-> Error("Unexpected token in JSON", ""), value |-> none ]
          [] outcome.kind = "null" ->
                [ error |-> Error("Could not find location", city), value |-> none ]
          [] OTHER ->
                IF Len(outcome.data) = 0
                THEN [ error |-> Error("Could not find location", city),
                       value |-> none ]
                ELSE [ error |-> NoError,
                       value |-> [ lat |-> parseFloat(outcome.data[1].lat),
                                   lon |-> parseFloat(outcome.data[1].lon),
                                   displayName |-> outcome.data[1].display_name ] ]

\* How an Overpass request settles: a parseable payload, a status that is
\* not ok, a transport failure, or a malformed payload (response.json() or
\* parseOSMData throws inside the try).
ServerOutcomes == { "ok", "status", "transport", "malformed" }

NumServers == Len(OVERPASS_SERVERS)

\* error.message of the error caught for a failed attempt.
ErrorMessage(outcome) ==
    CASE outcome = "status" -> "Server returned 504"
      [] outcome = "transport" -> "Failed to fetch"
      [] outcome = "malformed" -> "Unexpected token in JSON"

\* The payload server i serves when it answers.
Payload(i) ==
    CASE i = 1 ->
           [ elements |-> NodeEls({1, 2, 3}) \o
               << [ type |-> "way", nodes |-> << 1, 2 >>,
                    tags |-> [ highway |-> "primary" ] ],
                  [ type |-> "way", nodes |-> << 1, 2, 3, 1 >>,
                    tags |-> [ natural |-> "water" ] ] >> ]
      [] i = 2 ->
           [ elements |-> NodeEls({1, 2, 3}) \o
               << [ type |-> "way", nodes |-> << 1, 2 >>,
                    tags |-> [ highway |-> "motorway" ] ],
                  [ type |-> "way", nodes |-> << 2, 3 >>,
                    tags |-> [ highway |-> "service" ] ],
                  [ type |-> "way", nodes |-> << 3, 2, 1, 3 >>,
                    tags |-> [ leisure |-> "park" ] ] >> ]
      [] OTHER ->
           [ elements |-> NodeEls({1, 2, 3}) \o
               << [ type |-> "way", nodes |-> << 1, 2, 3 >>,
                    tags |-> [ waterway |-> "river" ] ],
                  [ type |-> "way", nodes |-> << 3, 1 >>,
                    tags |-> [ highway |-> "residential" ] ] >> ]

-----------------------------------------------------------------------------
(* fetchOSMData: the steps of the failover loop.                           *)

\* Whether an attempt ends in the catch block: the status is not ok, or
\* fetch, response.json() or parseOSMData threw.
AttemptFails(outcome) == outcome # "ok"

\* lastError is set by the first failure only.
RecordError_KeepsFirst(lastError, message) ==
    IF lastError = "null" THEN message ELSE lastError

\* lastError = error
RecordError(lastError, message) == message

\* A loop that steps over every other server.
NextServer_Skips(i) == i + 2

\* A loop that tries the server that just failed once more.
NextServer_Retries(i) == i

\* The server the for-of loop tries after server i.
NextServer(i) == i + 1

\* The loop is over after server i.
Exhausted(i) == NextServer(i) > NumServers

\* The layers are drawn whether or not the attempt returned.
LayersAfter_DrawsAnyway(outcome, ops) == ops

\* What renderPoster draws after `await fetchOSMData(..)`: nothing when the
\* attempt failed (the loop goes on, or the error propagates), the layers
\* when it returned.
LayersAfter(outcome, ops) == IF AttemptFails(outcome) THEN << >> ELSE ops

\* The error thrown when the loop ends without a return.
AllServersFailed(lastError) ==
    Error("Failed to fetch map data. Please try again in a moment.",
          IF lastError = "null" THEN "All servers unavailable" ELSE lastError)

-----------------------------------------------------------------------------
(* The page: init() and the submit handler.                                *)

Status(text, arg, type) == [ text |-> text, arg |-> arg, type |-> type ]

Request(by, url) == [ by |-> by, url |-> url ]

\* No place search has settled.
NoAnswer == [ kind |-> "none" ]

NoLocals ==
    [ city |-> "", country |-> "", themeName |-> "", radiusMeters |-> 0,
      themeLoad |-> "", lat |-> 0, lon |-> 0, server |-> 0, lastError |-> "null" ]

\* No invocation has started: the last generated place at the start of the
\* current invocation, and the place the invocation is for.
NotStarted ==
    [ city |-> "", country |-> "", forCity |-> "", forCountry |-> "",
      forTheme |-> "" ]

\* The download button is left as it is when an invocation starts.
DisableDownload_Skipped(disabled) == disabled

\* elements.downloadBtn.disabled = true
DisableDownload(disabled) == TRUE

\* What the user may have typed in the city and country fields.
CityInputs == { "", "  ", "Paris", " Rome " }

CountryInputs == { "", "France" }

\* No file has been offered.
NoExport == [ name |-> "", citySlug |-> "", themeName |-> "" ]

\* lastGeneratedCity.toLowerCase().replace(/\s+/g, '_') on the cities above.
Slug(city) ==
    CASE city = "Paris" -> "paris"
      [] city = "Rome" -> "rome"
      [] OTHER -> ""

\* new Date().toISOString().replace(/[:.]/g, '-').slice(0, 19)
Timestamps == { "2026-01-01T12-00-00" }

\* The value of the distance input, in kilometres.
DistanceInputs == { "10" }

\* parseInt on the inputs above.
parseInt(str) == CASE str = "10" -> 10

\* String.prototype.trim on the inputs above.
trim(str) ==
    CASE str = "  " -> ""
      [] str = " Rome " -> "Rome"
      [] OTHER -> str

Init ==
    /\ currentTheme = NullTheme
    /\ lastGeneratedCity = ""
    /\ lastGeneratedCountry = ""
    /\ themeSelect = "feature_based"
    /\ generateBtnDisabled = FALSE
    /\ downloadBtnDisabled = TRUE
    /\ overlayHidden = TRUE
    /\ loadingText = ""
    /\ status = Status("", "", "")
    /\ canvas = << >>
    /\ initPc = "loadTheme"
    /\ pc = "idle"
    /\ inv = NoLocals
    /\ inflight = { Request("init", ThemeUrl("feature_based")) }
    /\ calls = << >>
    /\ attempts = << >>
    /\ graph = NoGraph
    /\ region = NoRegion
    /\ drawn = << >>
    /\ caught = NoError
    /\ answer = NoAnswer
    /\ atStart = NotStarted
    /\ planar = NoPoint
    /\ exported = NoExport
    /\ phase = "page"

\* init() resumes after `await loadTheme('feature_based')`: the background
\* and the placeholder text are drawn.
InitThemeSettled ==
    /\ initPc = "loadTheme"
    /\ \E outcome \in ThemeOutcomes :
         LET theme == loadTheme("feature_based", outcome)
         IN  /\ currentTheme' = theme
             /\ canvas' = clearCanvas(theme) \o
                    << DrawOp("placeholder", "fillText", Get(theme, "text"), 0, << >>,
                              "Enter a city to generate your poster") >>
    /\ initPc' = "done"
    /\ inflight' = inflight \ { Request("init", ThemeUrl("feature_based")) }
    /\ UNCHANGED << lastGeneratedCity, lastGeneratedCountry, themeSelect,
                    generateBtnDisabled, downloadBtnDisabled, overlayHidden,
                    loadingText, status, pc, inv, calls, attempts, graph, region,
                    drawn, caught, answer, atStart, planar, exported,
                    phase >>

\* The user picks another entry of the theme select.
ChangeTheme ==
    /\ phase = "page"
    /\ \E t \in ThemeNames \ { themeSelect } : themeSelect' = t
    /\ UNCHANGED << currentTheme, lastGeneratedCity, lastGeneratedCountry,
                    generateBtnDisabled, downloadBtnDisabled, overlayHidden,
                    loadingText, status, canvas, initPc, pc, inv, inflight, calls,
                    attempts, graph, region, drawn, caught, answer, atStart,
                    planar, exported, phase >>

\* The submit handler up to `await loadTheme(themeName)`.  A form is not
\* submitted through a disabled submit button.
Submit ==
    /\ phase = "page"
    /\ pc = "idle"
    /\ ~generateBtnDisabled
    /\ \E cityIn \in CityInputs, countryIn \in CountryInputs,
          distanceIn \in DistanceInputs :
         LET city == trim(cityIn)
             country == trim(countryIn)
             distanceKm == parseInt(distanceIn)
         IN  IF city = "" \/ country = ""
             THEN /\ status' = Status("Please enter both city and country", "", "error")
                  /\ UNCHANGED << generateBtnDisabled, downloadBtnDisabled,
                                  overlayHidden, loadingText, pc, inv, inflight,
                                  calls, attempts, graph, region, drawn, caught,
                                  answer, atStart, exported >>
             ELSE /\ overlayHidden' = FALSE
                  /\ generateBtnDisabled' = TRUE
                  /\ downloadBtnDisabled' = DisableDownload(downloadBtnDisabled)
                  /\ status' = Status("", "", "")
                  /\ loadingText' = "Loading theme..."
                  /\ inv' = [ NoLocals EXCEPT !.city = city, !.country = country,
                                              !.themeName = themeSelect,
                                              !.radiusMeters = distanceKm * 1000 ]
                  /\ inflight' = inflight \cup { Request("submit", ThemeUrl(themeSelect)) }
                  /\ calls' = << ThemeUrl(themeSelect) >>
                  /\ attempts' = << >>
                  /\ graph' = NoGraph
                  /\ region' = NoRegion
                  /\ drawn' = << >>
                  /\ caught' = NoError
                  /\ answer' = NoAnswer
                  /\ atStart' = [ city |-> lastGeneratedCity,
                                  country |-> lastGeneratedCountry,
                                  forCity |-> city, forCountry |-> country,
                                  forTheme |-> themeSelect ]
                  /\ exported' = NoExport
                  /\ pc' = "loadTheme"
    /\ UNCHANGED << currentTheme, lastGeneratedCity, lastGeneratedCountry,
                    themeSelect, canvas, initPc, planar, phase >>

\* The handler resumes after loadTheme and runs to geocode's `await fetch`.
ThemeSettled ==
    /\ pc = "loadTheme"
    /\ \E outcome \in ThemeOutcomes :
         /\ currentTheme' = loadTheme(inv.themeName, outcome)
         /\ inv' = [ inv EXCEPT !.themeLoad = ThemeLoad(outcome) ]
    /\ loadingText' = "Finding location..."
    /\ inflight' = (inflight \ { Request("submit", ThemeUrl(inv.themeName)) })
                       \cup { Request("submit", NOMINATIM_URL) }
    /\ calls' = Append(calls, NOMINATIM_URL)
    /\ pc' = "geocode"
    /\ UNCHANGED << lastGeneratedCity, lastGeneratedCountry, themeSelect,
                    generateBtnDisabled, downloadBtnDisabled, overlayHidden,
                    status, canvas, initPc, attempts, graph, region, drawn,
                    caught, answer, atStart, planar, exported, phase >>

\* A catch path that leaves the loading state on.
Abort_StaysLoading(error) ==
    /\ caught' = error
    /\ status' = Status(error.msg, error.arg, "error")
    /\ UNCHANGED << overlayHidden, generateBtnDisabled >>
    /\ inv' = NoLocals
    /\ pc' = "idle"

\* catch (error) { setStatus(..) } finally { showLoading(false) }
Abort(error) ==
    /\ caught' = error
    /\ status' = Status(error.msg, error.arg, "error")
    /\ overlayHidden' = TRUE
    /\ generateBtnDisabled' = FALSE
    /\ inv' = NoLocals
    /\ pc' = "idle"

\* The handler resumes after geocode's request.  On success renderPoster
\* clears the canvas and fetchOSMData sends its first request.
GeocodeSettled ==
    /\ pc = "geocode"
    /\ \E outcome \in GeocodeOutcomes :
         LET r == geocode(inv.city, inv.country, outcome)
         IN  /\ answer' = outcome
             /\ IF r.error # NoError
                THEN /\ Abort(r.error)
                     /\ inflight' = inflight \ { Request("submit", NOMINATIM_URL) }
                     /\ UNCHANGED << loadingText, canvas, calls, drawn >>
                ELSE /\ status' = Status("Found", r.value.displayName, "loading")
                     /\ canvas' = clearCanvas(currentTheme)
                     /\ drawn' = clearCanvas(currentTheme)
                     /\ loadingText' = "Fetching map data..."
                     /\ inv' = [ inv EXCEPT !.lat = r.value.lat, !.lon = r.value.lon,
                                            !.server = 1, !.lastError = "null" ]
                     /\ inflight' = (inflight \ { Request("submit", NOMINATIM_URL) })
                                        \cup { Request("submit", OVERPASS_SERVERS[1]) }
                     /\ calls' = Append(calls, OVERPASS_SERVERS[1])
                     /\ pc' = "overpass"
                     /\ UNCHANGED << overlayHidden, generateBtnDisabled, caught >>
    /\ UNCHANGED << currentTheme, lastGeneratedCity, lastGeneratedCountry,
                    themeSelect, downloadBtnDisabled, initPc, attempts, graph,
                    region, atStart, planar, exported, phase >>

\* The handler resumes after the request to server inv.server.  A failed
\* attempt is recorded and the next server is tried, or the loop ends and
\* the handler aborts; a parseable payload is classified and rendered, and
\* the handler runs to its end.
OverpassSettled ==
    /\ pc = "overpass"
    /\ \E outcome \in ServerOutcomes :
         LET i == inv.server
             message == RecordError(inv.lastError, ErrorMessage(outcome))
             parsed == parseOSMData(Payload(i))
             r == RenderLayers(parsed, currentTheme, inv.city, inv.country,
                               inv.lat, inv.lon)
         IN  /\ attempts' = Append(attempts, outcome)
             /\ canvas' = canvas \o LayersAfter(outcome, r.ops)
             /\ drawn' = drawn \o LayersAfter(outcome, r.ops)
             /\ inflight' = (inflight \ { Request("submit", OVERPASS_SERVERS[i]) })
                   \cup IF AttemptFails(outcome) /\ ~Exhausted(i)
                        THEN { Request("submit", OVERPASS_SERVERS[NextServer(i)]) }
                        ELSE {}
             /\ IF AttemptFails(outcome)
                THEN IF ~Exhausted(i)
                     THEN /\ inv' = [ inv EXCEPT !.server = NextServer(i),
                                                 !.lastError = message ]
                          /\ calls' = Append(calls, OVERPASS_SERVERS[NextServer(i)])
                          /\ loadingText' = "Fetching map data..."
                          /\ UNCHANGED << status, overlayHidden, generateBtnDisabled,
                                          downloadBtnDisabled, pc, graph, region,
                                          lastGeneratedCity, lastGeneratedCountry,
                                          caught >>
                     ELSE /\ Abort(AllServersFailed(message))
                          /\ UNCHANGED << calls, loadingText, downloadBtnDisabled,
                                          graph, region, lastGeneratedCity,
                                          lastGeneratedCountry >>
                ELSE /\ graph' = Payload(i)
                     /\ region' = parsed
                     /\ loadingText' = "Rendering map..."
                     /\ IF r.error = "none"
                        THEN /\ lastGeneratedCity' = inv.city
                             /\ lastGeneratedCountry' = inv.country
                             /\ status' = Status("Poster generated for", inv.city,
                                                 "success")
                             /\ downloadBtnDisabled' = FALSE
                             /\ overlayHidden' = TRUE
                             /\ generateBtnDisabled' = FALSE
                             /\ inv' = NoLocals
                             /\ pc' = "idle"
                             /\ UNCHANGED caught
                        ELSE /\ Abort(Error(r.error, ""))
                             /\ UNCHANGED << lastGeneratedCity, lastGeneratedCountry,
                                             downloadBtnDisabled >>
                     /\ UNCHANGED calls
    /\ UNCHANGED << currentTheme, themeSelect, initPc, answer, atStart, planar,
                    exported, phase >>

\* A click on the download button, which does nothing while the button is
\* disabled: downloadPoster names the file and offers the canvas.
Download ==
    /\ phase = "page"
    /\ ~downloadBtnDisabled
    /\ \E timestamp \in Timestamps :
         LET citySlug == Slug(lastGeneratedCity)
             themeName == themeSelect
         IN  /\ exported' = [ name |-> citySlug \o "_" \o themeName \o "_"
                                         \o timestamp \o ".png",
                              citySlug |-> citySlug, themeName |-> themeName ]
    /\ UNCHANGED << currentTheme, lastGeneratedCity, lastGeneratedCountry,
                    themeSelect, generateBtnDisabled, downloadBtnDisabled,
                    overlayHidden, loadingText, status, canvas, initPc, pc, inv,
                    inflight, calls, attempts, graph, region, drawn, caught,
                    answer, atStart, planar, phase >>

Next ==
    \/ InitThemeSettled
    \/ ChangeTheme
    \/ Download
    \/ Submit
    \/ ThemeSettled
    \/ GeocodeSettled
    \/ OverpassSettled

Spec == Init /\ [][Next]_vars

\* The page with every network request settling in the end, so that every
\* suspended step of the handler and of init() is resumed.
SpecLive ==
    /\ Spec
    /\ WF_vars(InitThemeSettled)
    /\ WF_vars(ThemeSettled)
    /\ WF_vars(GeocodeSettled)
    /\ WF_vars(OverpassSettled)

-----------------------------------------------------------------------------
(* The classifier and the renderer on their own: parseOSMData is applied   *)
(* to a graph, and renderPoster draws what it returned.                    *)

\* The themes the renderer is run with: complete, and lacking a key.
RenderThemes == { FallbackTheme, ThemeBody("noir", "noGradient") }

InitClassify ==
    /\ graph \in Graphs
    /\ currentTheme \in RenderThemes
    /\ phase = "input"
    /\ region = NoRegion
    /\ canvas = << >>
    /\ drawn = << >>
    /\ lastGeneratedCity = ""
    /\ lastGeneratedCountry = ""
    /\ themeSelect = "feature_based"
    /\ generateBtnDisabled = TRUE
    /\ downloadBtnDisabled = TRUE
    /\ overlayHidden = FALSE
    /\ loadingText = "Fetching map data..."
    /\ status = Status("Found", "Paris, Ile-de-France", "loading")
    /\ initPc = "done"
    /\ pc = "overpass"
    /\ inv = [ NoLocals EXCEPT !.city = "Paris", !.country = "France",
                               !.lat = 4885, !.lon = 235 ]
    /\ inflight = {}
    /\ calls = << >>
    /\ attempts = << >>
    /\ caught = NoError
    /\ answer = NoAnswer
    /\ atStart = NotStarted
    /\ planar = NoPoint
    /\ exported = NoExport

\* return parseOSMData(data)
Classify ==
    /\ phase = "input"
    /\ region' = parseOSMData(graph)
    /\ phase' = "classified"
    /\ UNCHANGED << currentTheme, lastGeneratedCity, lastGeneratedCountry,
                    themeSelect, generateBtnDisabled, downloadBtnDisabled,
                    overlayHidden, loadingText, status, canvas, initPc, pc, inv,
                    inflight, calls, attempts, graph, drawn, caught, answer,
                    atStart, planar, exported >>

\* renderPoster with fetchOSMData returning region: the canvas is cleared
\* and the layers are drawn.
Render ==
    /\ phase = "classified"
    /\ LET r == RenderLayers(region, currentTheme, inv.city, inv.country,
                             inv.lat, inv.lon)
       IN  /\ canvas' = clearCanvas(currentTheme) \o r.ops
           /\ drawn' = clearCanvas(currentTheme) \o r.ops
    /\ loadingText' = "Rendering map..."
    /\ phase' = "rendered"
    /\ UNCHANGED << currentTheme, lastGeneratedCity, lastGeneratedCountry,
                    themeSelect, generateBtnDisabled, downloadBtnDisabled,
                    overlayHidden, status, initPc, pc, inv, inflight, calls,
                    attempts, graph, region, caught, answer, atStart, planar,
                    exported >>

NextClassify ==
    \/ Classify
    \/ Render

SpecClassify == InitClassify /\ [][NextClassify]_vars

-----------------------------------------------------------------------------
(* The projection on its own: renderPoster builds it around the resolved   *)
(* place, and a draw function hands it a point.                            *)

CenterLons == { 235, -9555 }

Radii == { 1000, 5000, 10000, 20000, 1000000 }

InitProject ==
    /\ \E centerLat \in CenterLats, centerLon \in CenterLons, radiusMeters \in Radii :
          inv = [ NoLocals EXCEPT !.city = "Paris", !.country = "France",
                                  !.lat = centerLat, !.lon = centerLon,
                                  !.radiusMeters = radiusMeters ]
    /\ planar = NoPoint
    /\ exported = NoExport
    /\ phase = "unprojected"
    /\ graph = NoGraph
    /\ region = NoRegion
    /\ currentTheme = FallbackTheme
    /\ canvas = << >>
    /\ drawn = << >>
    /\ lastGeneratedCity = ""
    /\ lastGeneratedCountry = ""
    /\ themeSelect = "feature_based"
    /\ generateBtnDisabled = TRUE
    /\ downloadBtnDisabled = TRUE
    /\ overlayHidden = FALSE
    /\ loadingText = "Finding location..."
    /\ status = Status("Found", "Paris, Ile-de-France", "loading")
    /\ initPc = "done"
    /\ pc = "geocode"
    /\ inflight = {}
    /\ calls = << >>
    /\ attempts = << >>
    /\ caught = NoError
    /\ answer = NoAnswer
    /\ atStart = NotStarted

\* createProjection(lat, lon, radiusMeters, CANVAS_WIDTH, CANVAS_HEIGHT) and
\* project(lat, lon) of the center.
ProjectCenter ==
    /\ phase = "unprojected"
    /\ planar' = project(inv.lat, inv.lon, inv.radiusMeters, CANVAS_WIDTH,
                         CANVAS_HEIGHT, inv.lat, inv.lon)
    /\ phase' = "projected"
    /\ UNCHANGED << currentTheme, lastGeneratedCity, lastGeneratedCountry,
                    themeSelect, generateBtnDisabled, downloadBtnDisabled,
                    overlayHidden, loadingText, status, canvas, initPc, pc, inv,
                    inflight, calls, attempts, graph, region, drawn, caught,
                    answer, atStart, exported >>

NextProject == ProjectCenter

SpecProject == InitProject /\ [][NextProject]_vars

-----------------------------------------------------------------------------
(* Properties of fetchOSMData and of the submit handler, checked under     *)
(* Spec.                                                                   *)

\* The Overpass requests of the current invocation: calls starts with the
\* theme request and the place search.
OverpassCalls == SubSeq(calls, 3, Len(calls))

FetchFailedMessage == "Failed to fetch map data. Please try again in a moment."

\* The messages of the errors geocode can end with.
ResolutionMessages ==
    { "Failed to fetch", "Geocoding request failed", "Unexpected token in JSON",
      "Could not find location" }

PosterLayers ==
    { "waterPolygons", "waterWays", "parks", "roads", "gradient", "typography" }

\* C1: if an attempt of fetchOSMData got a parseable payload, it is the
\* last attempt made and every attempt before it failed, the servers
\* contacted are exactly the first k of the list in list order, and the
\* region returned is the parsed payload of server k; so with the first N-1
\* servers failing the result is the payload of server N, and no server
\* after the first success is contacted.
C1_FirstParseableEndpointWins ==
    \A k \in 1..Len(attempts) :
        attempts[k] = "ok" =>
            /\ k = Len(attempts)
            /\ \A j \in 1..(k - 1) : attempts[j] # "ok"
            /\ OverpassCalls = SubSeq(OVERPASS_SERVERS, 1, k)
            /\ graph = Payload(k)
            /\ region = parseOSMData(Payload(k))
            /\ { r \in inflight : r.by = "submit" } = {}

\* C1 witness: the first two servers failed and the third answered; the
\* region is the third server's parsed payload.
C1_Witness ==
    /\ Len(attempts) = NumServers
    /\ attempts[1] # "ok" /\ attempts[2] # "ok" /\ attempts[NumServers] = "ok"
    /\ Len(OverpassCalls) = NumServers
    /\ Len(region.waterWays) = 1
    /\ Len(region.roads) = 1 /\ region.roads[1].type = "residential"
    /\ caught = NoError

\* C2: when all N servers have failed, fetchOSMData has thrown (no region
\* was returned, the handler is over) and the error carries the message of
\* the failure of server N.
C2_AllFailCarriesLastError ==
    ( /\ Len(attempts) = NumServers
      /\ \A k \in 1..NumServers : attempts[k] # "ok" )
    => /\ pc = "idle"
       /\ region = NoRegion
       /\ caught.msg = FetchFailedMessage
       /\ caught.arg = ErrorMessage(attempts[NumServers])

\* C2 witness: three failures of three different kinds; the error carries
\* the third.
C2_Witness ==
    /\ Len(attempts) = NumServers
    /\ attempts[1] = "status" /\ attempts[2] = "transport"
    /\ attempts[3] = "malformed"
    /\ caught = Error(FetchFailedMessage, "Unexpected token in JSON")
    /\ pc = "idle"

\* C3: the servers are contacted in list order, each at most once; server i
\* is contacted only when servers 1..i-1 have all settled with a failure;
\* at most one request of the invocation is in flight.
C3_SequentialInListOrder ==
    LET oc == OverpassCalls
    IN  /\ Len(oc) <= NumServers
        /\ \A i \in 1..Len(oc) : oc[i] = OVERPASS_SERVERS[i]
        /\ \A i \in 2..Len(oc) :
               /\ Len(attempts) >= i - 1
               /\ \A j \in 1..(i - 1) : attempts[j] # "ok"
        /\ Len(attempts) <= Len(oc)
        /\ Len(oc) - Len(attempts) = Cardinality({ r \in inflight :
               r.by = "submit" /\ \E i \in 1..NumServers : r.url = OVERPASS_SERVERS[i] })
        /\ Cardinality({ r \in inflight : r.by = "submit" }) <= 1

\* C3 witness: the request to the third server is in flight after two
\* failures.
C3_Witness ==
    /\ pc = "overpass"
    /\ OverpassCalls = OVERPASS_SERVERS
    /\ Len(attempts) = 2
    /\ Request("submit", OVERPASS_SERVERS[3]) \in inflight

\* C4: when the invocation ended with an error of place resolution or of
\* the region fetch, it drew none of the six layers, the status shows an
\* error, the last generated place is the one from before the invocation,
\* no region was classified and the download stays disabled; after a
\* failed resolution no Overpass server was contacted.
C4_FailureAbortsPipeline ==
    ( /\ pc = "idle"
      /\ caught.msg \in ResolutionMessages \cup { FetchFailedMessage } )
    => /\ \A i \in 1..Len(drawn) : drawn[i].layer \notin PosterLayers
       /\ status.type = "error"
       /\ lastGeneratedCity = atStart.city
       /\ lastGeneratedCountry = atStart.country
       /\ region = NoRegion
       /\ downloadBtnDisabled
       /\ caught.msg \in ResolutionMessages => OverpassCalls = << >>

\* C4 witness: a poster was generated for Paris, and a later invocation
\* failed on the region fetch after clearing the canvas.
C4_Witness ==
    /\ pc = "idle"
    /\ caught.msg = FetchFailedMessage
    /\ atStart.city = "Paris" /\ lastGeneratedCity = "Paris"
    /\ Len(drawn) = 1 /\ drawn[1].layer = "background"

\* The keys a theme object must have.
RequiredKeys ==
    { "bg", "text", "gradient_color", "water", "parks", "road_motorway",
      "road_primary", "road_secondary", "road_tertiary", "road_residential",
      "road_default" }

\* C9: a loaded theme object that lacks a required key is never the theme
\* in use once the handler has loaded its theme and gone on to place
\* resolution: loadTheme, the only writer of currentTheme, installs the
\* fallback theme instead, so the theme in use has every required key.
C9_IncompleteThemeFallsBack ==
    pc \in { "geocode", "overpass" } => RequiredKeys \subseteq DOMAIN currentTheme

\* C16: the step that ends the handler's loadTheme never ends the
\* invocation: whether the theme request failed or not, no error is caught,
\* the button stays disabled, the status is no error and the place search
\* is sent; when the request failed (transport, status or body), the theme
\* then in use is the fallback theme.
C16_ThemeFailureNeverAborts ==
    [][ pc = "loadTheme" /\ pc' # "loadTheme" =>
            /\ pc' = "geocode"
            /\ caught' = NoError
            /\ generateBtnDisabled' /\ ~overlayHidden'
            /\ status'.type # "error"
            /\ Request("submit", NOMINATIM_URL) \in inflight'
            /\ calls' = Append(calls, NOMINATIM_URL)
            /\ inv'.themeLoad \in { "failed", "loaded" }
            /\ inv'.themeLoad = "failed" => currentTheme' = FallbackTheme ]_vars

\* C16 witness: the request for the noir theme failed and the invocation is
\* resolving the place with the fallback theme.
C16_Witness ==
    /\ pc = "geocode"
    /\ inv.themeName = "noir"
    /\ inv.themeLoad = "failed"
    /\ currentTheme = FallbackTheme
    /\ Request("submit", NOMINATIM_URL) \in inflight
    /\ caught = NoError

\* C17: from the step that ends the handler's loadTheme to the end of the
\* invocation, a step that is not the handler's (its position and locals
\* stay as they are) writes neither currentTheme nor the canvas.
C17_SingleWriterPerInvocation ==
    [][ ( /\ pc \in { "geocode", "overpass" }
          /\ pc' = pc /\ inv' = inv )
        => ( currentTheme' = currentTheme /\ canvas' = canvas ) ]_vars

\* C18: the generate button is disabled and the overlay shown exactly
\* while an invocation is in flight; an invocation in flight always comes
\* to its end, whatever the outcome of its stages, with the button enabled
\* and the overlay hidden; a submit that validation rejects leaves the
\* button enabled.
C18_ButtonDisabledWhileInFlight ==
    /\ [](pc # "idle" => (generateBtnDisabled /\ ~overlayHidden))
    /\ [](pc = "idle" => (~generateBtnDisabled /\ overlayHidden))
    /\ [][ ( pc = "idle" /\ pc' = "idle"
             /\ status'.text = "Please enter both city and country" )
           => ~generateBtnDisabled' ]_vars
    /\ (pc # "idle") ~> (pc = "idle" /\ ~generateBtnDisabled /\ overlayHidden)

\* C18 witness: an invocation ended with all servers failing, and the
\* button is enabled and the overlay hidden again.
C18_Witness ==
    /\ pc = "idle"
    /\ caught.msg = FetchFailedMessage
    /\ Len(attempts) = NumServers
    /\ ~generateBtnDisabled /\ overlayHidden

\* C19: an invocation that ended with an error drew nothing on the
\* canvas, and the last generated place is the one from before it.
C19_FailureLeavesResultState ==
    ( pc = "idle" /\ caught # NoError )
    => /\ drawn = << >>
       /\ lastGeneratedCity = atStart.city
       /\ lastGeneratedCountry = atStart.country

\* C20: the download button is enabled only when the invocation started
\* last has ended without an error after a parseable payload and the
\* typography layer, and then the last generated place is the place of
\* that invocation; the button is disabled while an invocation is in
\* flight and after one that failed.
C20_DownloadOnlyAfterSuccess ==
    /\ ~downloadBtnDisabled =>
          /\ pc = "idle"
          /\ caught = NoError
          /\ atStart # NotStarted
          /\ attempts # << >> /\ attempts[Len(attempts)] = "ok"
          /\ \E i \in 1..Len(drawn) : drawn[i].layer = "typography"
          /\ lastGeneratedCity = atStart.forCity
          /\ lastGeneratedCountry = atStart.forCountry
    /\ pc # "idle" => downloadBtnDisabled
    /\ ( pc = "idle" /\ caught # NoError ) => downloadBtnDisabled

\* C20 witness: a poster for Paris was generated, then an invocation for
\* Rome failed: the button is disabled though the last generated place is
\* still Paris.
C20_Witness ==
    /\ pc = "idle"
    /\ caught # NoError
    /\ atStart.forCity = "Rome"
    /\ lastGeneratedCity = "Paris"
    /\ downloadBtnDisabled

\* A second case of C20: the button is enabled after a poster for Rome.
C20_WitnessEnabled ==
    /\ ~downloadBtnDisabled
    /\ atStart.forCity = "Rome"
    /\ lastGeneratedCity = "Rome" /\ lastGeneratedCountry = "France"

\* The number of place search requests of the current invocation.
GeocodeRequests ==
    Cardinality({ i \in 1..Len(calls) : calls[i] = NOMINATIM_URL })

\* C10: an invocation sends the place search once, whatever the answer; an
\* empty result list ends it with the not-found error, a status that is
\* not ok or a transport failure ends it with the error of the failed
\* request, and otherwise the coordinate is that of the first result.
C10_GeocodeSingleRequest ==
    /\ GeocodeRequests <= 1
    /\ answer # NoAnswer =>
          /\ GeocodeRequests = 1
          /\ Request("submit", NOMINATIM_URL) \notin inflight
    /\ (answer.kind = "ok" /\ answer.data = << >>) =>
          /\ pc = "idle"
          /\ caught.msg = "Could not find location"
    /\ answer.kind = "status" =>
          /\ pc = "idle"
          /\ caught.msg = "Geocoding request failed"
    /\ answer.kind = "transport" =>
          /\ pc = "idle"
          /\ caught.msg = "Failed to fetch"
    /\ (answer.kind = "ok" /\ answer.data # << >>) =>
          /\ caught.msg \notin ResolutionMessages
          /\ pc = "overpass" =>
                /\ inv.lat = parseFloat(answer.data[1].lat)
                /\ inv.lon = parseFloat(answer.data[1].lon)
          /\ \A i \in 1..Len(drawn) :
                drawn[i].kind = "coordinates" =>
                    drawn[i].coords = << [ lat |-> parseFloat(answer.data[1].lat),
                                           lon |-> parseFloat(answer.data[1].lon) ] >>

\* C10 witness: the search listed two places and the region fetch runs
\* with the coordinate of the first.
C10_Witness ==
    /\ pc = "overpass"
    /\ answer.kind = "ok"
    /\ Len(answer.data) = 2
    /\ answer.data[1].lat = "33.66"
    /\ inv.lat = 3366 /\ inv.lon = -9555
    /\ GeocodeRequests = 1

-----------------------------------------------------------------------------
(* Properties of parseOSMData and of the renderer, checked under           *)
(* SpecClassify.                                                           *)

LayerRank(layer) ==
    CASE layer = "background" -> 0
      [] layer = "waterPolygons" -> 1
      [] layer = "waterWays" -> 2
      [] layer = "parks" -> 3
      [] layer = "roads" -> 4
      [] layer = "gradient" -> 5
      [] layer = "typography" -> 6

IsRoadOp(op) == op.layer = "roads"

\* C5: the operations renderPoster issued are in the layer order water
\* polygons, water lines, parks, roads, gradient, typography, and the
\* road strokes are the roads of the sorted collection, in its order.
C5_FixedLayerOrder ==
    phase = "rendered" =>
        /\ \A a, b \in 1..Len(canvas) :
               a < b => LayerRank(canvas[a].layer) <= LayerRank(canvas[b].layer)
        /\ LET strokes == SelectSeq(canvas, IsRoadOp)
           IN  /\ Len(strokes) = Len(region.roads)
               /\ \A i \in 1..Len(strokes) :
                      /\ strokes[i].kind = region.roads[i].type
                      /\ strokes[i].coords = region.roads[i].coords

\* C5 witness: a graph with ways of every category was rendered with a
\* complete theme; all six layers are on the canvas.
C5_Witness ==
    /\ phase = "rendered"
    /\ graph = FullGraph
    /\ { canvas[i].layer : i \in 1..Len(canvas) } = PosterLayers \cup { "background" }
    /\ Len(SelectSeq(canvas, IsRoadOp)) = 3

\* The way elements the classifier looks at, by position.
WayPositions ==
    { i \in 1..Len(graph.elements) :
          /\ graph.elements[i].type = "way"
          /\ "nodes" \in DOMAIN graph.elements[i]
          /\ "tags" \in DOMAIN graph.elements[i] }

\* The ids that have a node element.
KnownIds ==
    { graph.elements[i].id :
          i \in { j \in 1..Len(graph.elements) : graph.elements[j].type = "node" } }

\* The number of member node ids of a way that have a node element.
Resolvable(el) ==
    Cardinality({ p \in 1..Len(el.nodes) : el.nodes[p] \in KnownIds })

\* The first member node id differs from the last.
OpenWay(el) == Len(el.nodes) >= 1 /\ el.nodes[1] # el.nodes[Len(el.nodes)]

HasHighway(el) == "highway" \in DOMAIN el.tags

WaterTagged(el) ==
    \/ ("natural" \in DOMAIN el.tags /\ el.tags["natural"] = "water")
    \/ "waterway" \in DOMAIN el.tags

TotalGeometries ==
    Len(region.roads) + Len(region.waterWays) + Len(region.waterPolygons)
        + Len(region.parks)

\* The position of a subtype in the priority table, 0 when it is not in it.
PriorityRank(subtype) ==
    IF \E i \in 1..Len(roadOrder) : roadOrder[i] = subtype
    THEN CHOOSE i \in 1..Len(roadOrder) : roadOrder[i] = subtype
    ELSE 0

\* C6: the returned roads are in non-decreasing table rank, every road of
\* an unlisted subtype comes before every road of a listed one, and the
\* roads are those of the graph: each subtype as often as the graph has a
\* resolvable way with that highway tag.
C6_RoadsSortedByPriority ==
    phase # "input" =>
        LET roads == region.roads
        IN  /\ \A a, b \in 1..Len(roads) :
                   a < b => PriorityRank(roads[a].type) <= PriorityRank(roads[b].type)
            /\ \A a, b \in 1..Len(roads) :
                   ( PriorityRank(roads[a].type) = 0 /\ PriorityRank(roads[b].type) > 0 )
                       => a < b
            /\ \A t \in RoadSubtypes :
                   Cardinality({ a \in 1..Len(roads) : roads[a].type = t })
                     = Cardinality({ i \in WayPositions :
                           /\ HasHighway(graph.elements[i])
                           /\ graph.elements[i].tags["highway"] = t
                           /\ Resolvable(graph.elements[i]) >= 2 })

\* C6 witness: motorway, path, service come out as path, service, motorway.
C6_Witness ==
    /\ phase = "classified"
    /\ Len(region.roads) = 3
    /\ \E a, b, c \in WayPositions :
           /\ a < b /\ b < c
           /\ graph.elements[a].tags["highway"] = "motorway"
           /\ graph.elements[b].tags["highway"] = "path"
           /\ graph.elements[c].tags["highway"] = "service"
    /\ region.roads[1].type = "path"
    /\ region.roads[2].type = "service"
    /\ region.roads[3].type = "motorway"

\* C7: no open way becomes a polygon: there are at most as many water
\* polygons and parks as there are closed ways; every open water way with
\* two resolvable points is a water line; an open park candidate is in no
\* collection.
C7_OpenWaysAreNeverPolygons ==
    phase # "input" =>
        /\ Len(region.waterPolygons) + Len(region.parks)
             <= Cardinality({ i \in WayPositions : ~OpenWay(graph.elements[i]) })
        /\ Len(region.waterWays)
             = Cardinality({ i \in WayPositions :
                   /\ OpenWay(graph.elements[i])
                   /\ ~HasHighway(graph.elements[i])
                   /\ WaterTagged(graph.elements[i])
                   /\ Resolvable(graph.elements[i]) >= 2 })
        /\ TotalGeometries
             <= Cardinality({ i \in WayPositions :
                   ~( /\ OpenWay(graph.elements[i])
                      /\ ~HasHighway(graph.elements[i])
                      /\ ~WaterTagged(graph.elements[i]) ) })

\* C7 witness: an open water way of three known nodes was classified as
\* one water line.
C7_Witness ==
    /\ phase = "classified"
    /\ \E i \in WayPositions :
           /\ OpenWay(graph.elements[i])
           /\ graph.elements[i].tags = [ natural |-> "water" ]
           /\ Resolvable(graph.elements[i]) = 3
    /\ Len(region.waterWays) = 1
    /\ TotalGeometries = 1

\* C8: a way with fewer than 2 resolvable member node ids yields nothing:
\* there are at most as many geometries as ways with 2 or more, and the
\* classifier returned its node lookup.
C8_UnresolvableWaysAreDropped ==
    phase # "input" =>
        /\ TotalGeometries
             <= Cardinality({ i \in WayPositions : Resolvable(graph.elements[i]) >= 2 })
        /\ DOMAIN region.nodes = KnownIds

\* C8 witness: a road of three member ids of which one is known was
\* classified, and the region is empty.
C8_Witness ==
    /\ phase = "classified"
    /\ \E i \in WayPositions :
           /\ HasHighway(graph.elements[i])
           /\ Len(graph.elements[i].nodes) = 3
           /\ Resolvable(graph.elements[i]) = 1
    /\ TotalGeometries = 0
    /\ KnownIds # {}

\* C12: every water polygon and every park returned by parseOSMData has
\* at least 3 points, and every road and every water line at least 2,
\* whatever the graph; also for closed ways with member ids that have no
\* node element.
C12_GeometriesHaveEnoughPoints ==
    phase # "input" =>
        /\ \A i \in 1..Len(region.waterPolygons) :
               Len(region.waterPolygons[i].coords) >= 3
        /\ \A i \in 1..Len(region.parks) : Len(region.parks[i].coords) >= 3
        /\ \A i \in 1..Len(region.roads) : Len(region.roads[i].coords) >= 2
        /\ \A i \in 1..Len(region.waterWays) : Len(region.waterWays[i].coords) >= 2

ParkTagged(el) ==
    \/ ("leisure" \in DOMAIN el.tags /\ el.tags["leisure"] = "park")
    \/ ("landuse" \in DOMAIN el.tags /\ el.tags["landuse"] = "grass")

\* The ways with two or more resolvable member ids.
KeptPositions == { i \in WayPositions : Resolvable(graph.elements[i]) >= 2 }

\* C13: the tags are tested in the order highway, water, park and the first
\* match decides: the roads are exactly the kept ways with a highway tag,
\* whatever else they carry; the water lines and water polygons are exactly
\* the kept ways with a water tag and no highway tag; the parks are exactly
\* the kept closed ways with a park tag and neither of the others.  So no
\* way is in two collections.
C13_TagPrecedence ==
    phase # "input" =>
        /\ Len(region.roads)
             = Cardinality({ i \in KeptPositions : HasHighway(graph.elements[i]) })
        /\ Len(region.waterWays) + Len(region.waterPolygons)
             = Cardinality({ i \in KeptPositions :
                   /\ ~HasHighway(graph.elements[i])
                   /\ WaterTagged(graph.elements[i]) })
        /\ Len(region.parks)
             = Cardinality({ i \in KeptPositions :
                   /\ ~HasHighway(graph.elements[i])
                   /\ ~WaterTagged(graph.elements[i])
                   /\ ParkTagged(graph.elements[i])
                   /\ ~OpenWay(graph.elements[i]) })
        /\ TotalGeometries <= Cardinality(KeptPositions)

\* C13 witness: a closed way tagged highway, natural=water and leisure=park
\* was classified as one road and nothing else.
C13_Witness ==
    /\ phase = "classified"
    /\ \E i \in KeptPositions :
           /\ DOMAIN graph.elements[i].tags = { "highway", "natural", "leisure" }
           /\ ~OpenWay(graph.elements[i])
    /\ Len(region.roads) = 1 /\ region.roads[1].type = "service"
    /\ TotalGeometries = 1

\* The coordinate the graph gives for a node id.
CoordOf(id) ==
    LET n == CHOOSE j \in 1..Len(graph.elements) :
                 graph.elements[j].type = "node" /\ graph.elements[j].id = id
    IN  [ lat |-> graph.elements[n].lat, lon |-> graph.elements[n].lon ]

\* The member ids of a way that have a node element, in way order.
RECURSIVE KnownMembers(_)
KnownMembers(ids) ==
    IF ids = << >> THEN << >>
    ELSE IF Head(ids) \in KnownIds
         THEN << Head(ids) >> \o KnownMembers(Tail(ids))
         ELSE KnownMembers(Tail(ids))

\* The points a kept way must have.
ExpectedPoints(el) ==
    LET ids == KnownMembers(el.nodes)
    IN  [ p \in 1..Len(ids) |-> CoordOf(ids[p]) ]

\* The collection the tags and the shape of a kept way put it in.
ExpectedCollection(el) ==
    IF HasHighway(el) THEN "roads"
    ELSE IF WaterTagged(el)
         THEN IF OpenWay(el) THEN "waterWays" ELSE "waterPolygons"
    ELSE IF ParkTagged(el) /\ ~OpenWay(el) THEN "parks"
    ELSE "none"

\* C14: the geometries of each collection have the points of the kept ways
\* of that collection: the coordinates of the way's known member ids in way
\* order, an id that occurs twice giving two points; each point sequence
\* occurs as often among the geometries as among the ways.  The closed way
\* 1,2,3,1 around known nodes is one water polygon of 4 points and no
\* water line.
C14_PointsInWayOrder ==
    phase # "input" =>
        /\ \A c \in { "roads", "waterWays", "waterPolygons", "parks" } :
               LET ways == { i \in KeptPositions :
                               ExpectedCollection(graph.elements[i]) = c }
               IN  /\ Len(region[c]) = Cardinality(ways)
                   /\ \A k \in 1..Len(region[c]) :
                          \E i \in ways :
                              region[c][k].coords = ExpectedPoints(graph.elements[i])
                   /\ \A i \in ways :
                          Cardinality({ k \in 1..Len(region[c]) :
                              region[c][k].coords = ExpectedPoints(graph.elements[i]) })
                            = Cardinality({ j \in ways :
                                  ExpectedPoints(graph.elements[j])
                                    = ExpectedPoints(graph.elements[i]) })
        /\ graph = RingGraph =>
               /\ Len(region.waterPolygons) = 1
               /\ region.waterPolygons[1].coords
                    = << CoordOf(1), CoordOf(2), CoordOf(3), CoordOf(1) >>
               /\ region.waterWays = << >>

\* C14 witness: the closed way 1,2,3,1 was classified as one polygon of 4
\* points whose last point is its first.
C14_Witness ==
    /\ phase = "classified"
    /\ graph = RingGraph
    /\ Len(region.waterPolygons) = 1
    /\ Len(region.waterPolygons[1].coords) = 4
    /\ region.waterPolygons[1].coords[4] = region.waterPolygons[1].coords[1]
    /\ TotalGeometries = 1

\* A second case of C14: a way 3,2,3 of which node 2 is unknown keeps the
\* two points of node 3.
C14_WitnessRepeated ==
    /\ phase = "classified"
    /\ \E i \in KeptPositions :
           /\ graph.elements[i].nodes = << 3, 2, 3 >>
           /\ 2 \notin KnownIds
           /\ HasHighway(graph.elements[i])
    /\ Len(region.roads) = 1
    /\ region.roads[1].coords = << CoordOf(3), CoordOf(3) >>

\* The elements with those at positions i and j exchanged.
Swap(elements, i, j) ==
    [ k \in 1..Len(elements) |->
        IF k = i THEN elements[j] ELSE IF k = j THEN elements[i] ELSE elements[k] ]

\* The subtypes of a road collection, in its order.
Subtypes(roads) == [ k \in 1..Len(roads) |-> roads[k].type ]

\* C15: the order of the road subtypes does not depend on the order of the
\* elements: the graph with any two of its elements exchanged gives the
\* same sequence of subtypes as the graph itself.
C15_RoadOrderIndependentOfInputOrder ==
    phase # "input" =>
        \A i, j \in 1..Len(graph.elements) :
            Subtypes(parseOSMData([ elements |-> Swap(graph.elements, i, j) ]).roads)
              = Subtypes(region.roads)

-----------------------------------------------------------------------------
(* Properties of createProjection, checked under SpecProject.              *)

\* The distance of a from b.
Dist(a, b) == IF a >= b THEN a - b ELSE b - a

\* C11 as claimed: the center projects to within a pixel of the middle of
\* the canvas, whatever the radius and the latitude.
C11_CenterProjectsToCenter ==
    phase = "projected" =>
        /\ Dist(planar.x, (CANVAS_WIDTH * 100) \div 2) <= 100
        /\ Dist(planar.y, (CANVAS_HEIGHT * 100) \div 2) <= 100

\* C11, amended: the center projects to the horizontal middle whatever the
\* radius, and to within a pixel of the vertical middle when the radius is
\* at most 10 km and the latitude at most 60 degrees north or south.
C11_CenterProjectsToCenterOfSmallRegion ==
    phase = "projected" =>
        /\ Dist(planar.x, (CANVAS_WIDTH * 100) \div 2) <= 100
        /\ ( inv.radiusMeters <= 10000 /\ Dist(inv.lat, 0) <= 6000 )
               => Dist(planar.y, (CANVAS_HEIGHT * 100) \div 2) <= 100

\* C11 witness: a 10 km projection around latitude 48.85 puts its center
\* off the vertical middle, by less than a pixel.
C11_Witness ==
    /\ phase = "projected"
    /\ inv.radiusMeters = 10000 /\ inv.lat = 4885
    /\ planar.x = (CANVAS_WIDTH * 100) \div 2
    /\ planar.y # (CANVAS_HEIGHT * 100) \div 2
    /\ Dist(planar.y, (CANVAS_HEIGHT * 100) \div 2) <= 100

-----------------------------------------------------------------------------
(* Properties of downloadPoster, checked under Spec.                       *)

\* C21: the file offered last is named after the poster on the canvas: its
\* theme name is the theme selected when the invocation that drew the
\* poster started, and its place slug is the slug of that invocation's
\* city, whatever was generated, selected and downloaded before.
C21_FileNamedAfterRenderedPoster ==
    exported # NoExport =>
        /\ exported.themeName = atStart.forTheme
        /\ exported.citySlug = Slug(atStart.forCity)
        /\ \E timestamp \in Timestamps :
               exported.name = Slug(atStart.forCity) \o "_" \o atStart.forTheme
                                 \o "_" \o timestamp \o ".png"

=============================================================================
